---- MODULE Spec2Model ----
(***************************************************************************)
(* Query compilation and tenant authorization of the v2 API controllers    *)
(* (ceilometer/api/controllers/v2.py): _sanitize_query, _query_to_kwargs,   *)
(* _get_query_timestamps, Query._get_value_as_type and                      *)
(* _validate_groupby_fields, as a state machine whose one step is a whole   *)
(* call of one of them.  Spec is about calls with the lists the requests    *)
(* carry, SpecHandlers about the requests to the list handlers that leave   *)
(* the list out.                                                            *)
(*                                                                         *)
(* Python values are modelled as follows.  Text is a TLA+ string.  A dict   *)
(* is a function from its keys; a list is a sequence.  A naive datetime is  *)
(* the one-element tuple <<m>> of its minutes since 2013-01-01T00:00:00,    *)
(* and a datetime-or-None slot holds NoneTime for None.  A converted        *)
(* metadata value is tagged with its Python type.                           *)
(***************************************************************************)
EXTENDS Integers, Sequences, FiniteSets, TLC

VARIABLES pc, query, query0, db_args, ikeys, ikeys0, use_default, auth, outcome,
          default_internal_keys, first, earlier, arg, ret, handler, default_q,
          alarm_store, alarm_changes, post

vars == <<pc, query, query0, db_args, ikeys, ikeys0, use_default, auth, outcome,
          default_internal_keys, first, earlier, arg, ret, handler, default_q,
          alarm_store, alarm_changes, post>>

\* the alarms and alarm changes of the storage connection, and the requests
\* to AlarmsController.post under way
alarm_vars == <<alarm_store, alarm_changes, post>>

\* everything else
request_vars == <<pc, query, query0, db_args, ikeys, ikeys0, use_default, auth,
                  outcome, default_internal_keys, first, earlier, arg, ret, handler,
                  default_q>>

----------------------------------------------------------------------------
(* Bounds of the model. *)

\* longest expression list a request carries
MaxLen == 3
\* longest the shared default internal_keys list is followed
MaxDefaultKeys == 2
\* most compiles of one list object by one request
MaxRounds == 2
\* longest list of group-by fields a request carries
MaxGroupBy == 3
\* requests to AlarmsController.post
MaxPosts == 2
\* samples in the body of a request to MeterController.post
MaxSamples == 2

----------------------------------------------------------------------------
(* Python's None, wsme.Unset, and the empty dict / list. *)

None == "None"
Unset == "Unset"
NoneTime == <<>>
EmptyDict == [k \in {} |-> ""]

\* d[k] = v of a Python dict
Put(d, k, v) == [x \in (DOMAIN d) \cup {k} |-> IF x = k THEN v ELSE d[x]]

\* truth value of a text-or-None-or-Unset value
Truthy(v) == v /= None /\ v /= Unset /\ v /= ""

\* the comparison operators a Query can carry
operation_kind == {"lt", "le", "eq", "ne", "ge", "gt"}

\* Query.get_op
get_op(i) == IF Truthy(i._op) THEN i._op ELSE "eq"

\* Query(field=..., op=..., value=...)
Query(f, o, v) == [field |-> f, _op |-> o, value |-> v, type |-> Unset]

\* Query(field=..., op=..., value=..., type=...)
TypedQuery(f, o, v, t) == [field |-> f, _op |-> o, value |-> v, type |-> t]

----------------------------------------------------------------------------
(* Text conversions, as tables over the texts the requests of this model    *)
(* carry: int(), float(), ast.literal_eval, strutils.bool_from_string,      *)
(* timeutils.parse_isotime followed by replace(tzinfo=None).                *)

\* texts int() accepts, with their value
IntLiterals == ("0" :> 0) @@ ("1" :> 1) @@ ("2" :> 2) @@ ("-1" :> -1) @@ ("5" :> 5)

\* texts float() accepts, as numerator and denominator
FloatLiterals == ("0" :> <<0, 1>>) @@ ("1" :> <<1, 1>>) @@ ("2" :> <<2, 1>>)
                 @@ ("-1" :> <<-1, 1>>) @@ ("5" :> <<5, 1>>) @@ ("1.5" :> <<3, 2>>)

\* the tokens the boolean parser takes for true and for false, in any case
TrueStrings == {"true", "1", "yes", "on"}
FalseStrings == {"false", "0", "no", "off"}

\* lower-cased form of the texts of this model
Lowered(s) == CASE s = "True" -> "true" [] s = "False" -> "false"
                [] s = "YES" -> "yes" [] OTHER -> s

\* strutils.bool_from_string(text): a boolean, or an error for a text that
\* is no boolean token
bool_from_string(s) ==
    IF Lowered(s) \in TrueStrings THEN [ok |-> TRUE, v |-> TRUE]
    ELSE IF Lowered(s) \in FalseStrings THEN [ok |-> TRUE, v |-> FALSE]
    ELSE [ok |-> FALSE, v |-> FALSE]

\* ISO 8601 texts parse_isotime accepts, with the wall-clock minute they name
\* (replace(tzinfo=None) keeps the wall clock and drops the zone)
IsoTimes == ("2013-01-01T00:10:00" :> 10) @@ ("2013-01-01T00:30:00" :> 30)
            @@ ("2013-01-01T01:20:00+01:00" :> 80)

\* int(text): a value, or ValueError
ParseInt(s) == IF s \in DOMAIN IntLiterals
               THEN [ok |-> TRUE, v |-> IntLiterals[s]]
               ELSE [ok |-> FALSE, v |-> 0]

\* timeutils.parse_isotime(text).replace(tzinfo=None): a datetime, or ValueError
ParseIsoTime(s) == IF s \in DOMAIN IsoTimes
                   THEN [ok |-> TRUE, v |-> <<IsoTimes[s]>>]
                   ELSE [ok |-> FALSE, v |-> NoneTime]

\* ast.literal_eval(text): the literal's value, or the text itself on
\* ValueError / SyntaxError
LiteralEval(s) == CASE s \in DOMAIN IntLiterals -> <<"int", IntLiterals[s]>>
                    [] s = "1.5" -> <<"float", 3, 2>>
                    [] s = "True" -> <<"bool", TRUE>>
                    [] s = "False" -> <<"bool", FALSE>>
                    [] OTHER -> <<"str", s>>

\* a raised exception: its class and what it is about
Raise(exc, what) == [ok |-> FALSE, exc |-> exc, what |-> what, kwargs |-> EmptyDict]

\* a returned descriptor
Returns(kwargs) == [ok |-> TRUE, exc |-> None, what |-> None, kwargs |-> kwargs]

\* the function as it would be if an unknown declared type were taken as
\* string
_get_value_as_type_AnyType(i) ==
    IF ~Truthy(i.type) THEN [ok |-> TRUE, v |-> LiteralEval(i.value)]
    ELSE CASE i.type = "integer" ->
                IF ParseInt(i.value).ok
                THEN [ok |-> TRUE, v |-> <<"int", ParseInt(i.value).v>>]
                ELSE [ok |-> FALSE, v |-> "Failed to convert"]
           [] i.type = "float" ->
                IF i.value \in DOMAIN FloatLiterals
                THEN [ok |-> TRUE, v |-> <<"float", FloatLiterals[i.value][1],
                                           FloatLiterals[i.value][2]>>]
                ELSE [ok |-> FALSE, v |-> "Failed to convert"]
           [] i.type = "boolean" ->
                IF bool_from_string(i.value).ok
                THEN [ok |-> TRUE, v |-> <<"bool", bool_from_string(i.value).v>>]
                ELSE [ok |-> FALSE, v |-> "Failed to convert"]
           [] OTHER -> [ok |-> TRUE, v |-> <<"str", i.value>>]

\* Query._get_value_as_type
_get_value_as_type(i) ==
    IF ~Truthy(i.type) THEN [ok |-> TRUE, v |-> LiteralEval(i.value)]
    ELSE CASE i.type = "integer" ->
                IF ParseInt(i.value).ok
                THEN [ok |-> TRUE, v |-> <<"int", ParseInt(i.value).v>>]
                ELSE [ok |-> FALSE, v |-> "Failed to convert"]
           [] i.type = "float" ->
                IF i.value \in DOMAIN FloatLiterals
                THEN [ok |-> TRUE, v |-> <<"float", FloatLiterals[i.value][1],
                                           FloatLiterals[i.value][2]>>]
                ELSE [ok |-> FALSE, v |-> "Failed to convert"]
           [] i.type = "boolean" ->
                IF bool_from_string(i.value).ok
                THEN [ok |-> TRUE, v |-> <<"bool", bool_from_string(i.value).v>>]
                ELSE [ok |-> FALSE, v |-> "Failed to convert"]
           [] i.type = "string" -> [ok |-> TRUE, v |-> <<"str", i.value>>]
           [] OTHER -> [ok |-> FALSE, v |-> "not supported"]

----------------------------------------------------------------------------
(* Field names: str.startswith and the slice field[9:], over the field      *)
(* names the requests of this model carry.                                  *)

\* field.startswith('metadata.')
StartsWithMetadata(f) == f \in {"metadata.flavor", "metadata.size"}

\* field.startswith('resource_metadata.')
StartsWithResourceMetadata(f) == f \in {"resource_metadata.flavor"}

\* the slice as it would be if nothing were cut off
Slice9_Whole(f) == f

\* field[9:]
Slice9(f) == CASE f = "resource_metadata.flavor" -> "metadata.flavor"
               [] f = "metadata.flavor" -> "flavor"
               [] f = "metadata.size" -> "size"
               [] OTHER -> ""

\* the elements of a list, as a set
Elems(s) == {s[n] : n \in 1..Len(s)}

\* dict.get(key, default)
Get(d, k, default) == IF k \in DOMAIN d THEN d[k] ELSE default

\* the alias table of _query_to_kwargs
translation == ("user_id" :> "user") @@ ("project_id" :> "project")
               @@ ("resource_id" :> "resource")

----------------------------------------------------------------------------
(* _sanitize_query *)

\* proj_q = [i for i in q if i.field == 'project_id']
proj_q(q) == SelectSeq(q, LAMBDA i : i.field = "project_id")

\* the check as it would be if the operator were not looked at
NotAuthorized_ValueOnly(auth_project, i) == auth_project /= i.value

\* the check of one project_id expression against the caller's project
NotAuthorized(auth_project, i) == auth_project /= i.value \/ get_op(i) /= "eq"

\* the test as it would be if the list were not looked at
AddsProject_EveryCall(q, valid_keys) == "on_behalf_of" \notin Elems(valid_keys)

\* the test as it would be without the on_behalf_of exemption
AddsProject_NoExemption(q, valid_keys) == proj_q(q) = <<>>

\* whether the implicit project filter is added
AddsProject(q, valid_keys) == proj_q(q) = <<>> /\ "on_behalf_of" \notin Elems(valid_keys)

\* the function as it would be without the "if auth_project:" guard
_sanitize_query_Unguarded(q, valid_keys, auth_project) ==
    IF \E n \in 1..Len(proj_q(q)) : NotAuthorized(auth_project, proj_q(q)[n])
    THEN [ok |-> FALSE, q |-> q]
    ELSE IF AddsProject(q, valid_keys)
         THEN [ok |-> TRUE, q |-> Append(q, Query("project_id", "eq", auth_project))]
         ELSE [ok |-> TRUE, q |-> q]

\* the result of _sanitize_query: the list q after the call, or the exception
_sanitize_query(q, valid_keys, auth_project) ==
    IF ~Truthy(auth_project) THEN [ok |-> TRUE, q |-> q]
    ELSE IF \E n \in 1..Len(proj_q(q)) : NotAuthorized(auth_project, proj_q(q)[n])
         THEN [ok |-> FALSE, q |-> q]
         ELSE IF AddsProject(q, valid_keys)
              THEN [ok |-> TRUE, q |-> Append(q, Query("project_id", "eq", auth_project))]
              ELSE [ok |-> TRUE, q |-> q]

----------------------------------------------------------------------------
(* _get_query_timestamps *)

\* query_start / query_end from one raw bound: None when the bound is absent
\* or empty, else the parsed time moved by delta minutes
QueryBound(raw, delta) == IF Truthy(raw) THEN <<ParseIsoTime(raw).v[1] + delta>> ELSE NoneTime

\* the parsed bound itself, or the raw falsy value
ParsedBound(raw) == IF Truthy(raw) THEN ParseIsoTime(raw).v ELSE raw

\* the function as it would be with the offset subtracted from both bounds
_get_query_timestamps_BothBack(args) ==
    LET so == IF "search_offset" \in DOMAIN args
              THEN ParseInt(args["search_offset"])
              ELSE [ok |-> TRUE, v |-> 0]
        start_timestamp == Get(args, "start_timestamp", None)
        end_timestamp == Get(args, "end_timestamp", None)
    IN  IF ~so.ok THEN [ok |-> FALSE]
        ELSE IF Truthy(start_timestamp) /\ ~ParseIsoTime(start_timestamp).ok
             THEN [ok |-> FALSE]
        ELSE IF Truthy(end_timestamp) /\ ~ParseIsoTime(end_timestamp).ok
             THEN [ok |-> FALSE]
        ELSE [ok |-> TRUE,
              query_start |-> QueryBound(start_timestamp, 0 - so.v),
              query_end |-> QueryBound(end_timestamp, 0 - so.v),
              start_timestamp |-> ParsedBound(start_timestamp),
              end_timestamp |-> ParsedBound(end_timestamp),
              search_offset |-> so.v]

\* the result of _get_query_timestamps(args), or ValueError
_get_query_timestamps(args) ==
    LET so == IF "search_offset" \in DOMAIN args
              THEN ParseInt(args["search_offset"])
              ELSE [ok |-> TRUE, v |-> 0]
        start_timestamp == Get(args, "start_timestamp", None)
        end_timestamp == Get(args, "end_timestamp", None)
    IN  IF ~so.ok THEN [ok |-> FALSE]
        ELSE IF Truthy(start_timestamp) /\ ~ParseIsoTime(start_timestamp).ok
             THEN [ok |-> FALSE]
        ELSE IF Truthy(end_timestamp) /\ ~ParseIsoTime(end_timestamp).ok
             THEN [ok |-> FALSE]
        ELSE [ok |-> TRUE,
              query_start |-> QueryBound(start_timestamp, 0 - so.v),
              query_end |-> QueryBound(end_timestamp, so.v),
              start_timestamp |-> ParsedBound(start_timestamp),
              end_timestamp |-> ParsedBound(end_timestamp),
              search_offset |-> so.v]

----------------------------------------------------------------------------
(* _query_to_kwargs *)

\* the locals of the loop over the expressions, before the first one
LoopStart == [raised |-> FALSE, exc |-> None, what |-> None,
              stamp |-> EmptyDict, metaquery |-> EmptyDict, kwargs |-> EmptyDict]

\* the loop body raising
LoopRaise(a, exc, what) == [a EXCEPT !.raised = TRUE, !.exc = exc, !.what = what]

\* the body of the loop for a timestamp expression
TimestampStep(a, i) ==
    IF get_op(i) \in {"lt", "le"}
    THEN [a EXCEPT !.stamp = Put(Put(a.stamp, "end_timestamp", i.value),
                                 "end_timestamp_op", get_op(i))]
    ELSE IF get_op(i) \in {"gt", "ge"}
         THEN [a EXCEPT !.stamp = Put(Put(a.stamp, "start_timestamp", i.value),
                                      "start_timestamp_op", get_op(i))]
         ELSE LoopRaise(a, "InvalidInput", "op")

\* the body of the loop for a metadata expression stored under key
MetadataStep(a, i, key) ==
    IF _get_value_as_type(i).ok
    THEN [a EXCEPT !.metaquery = Put(a.metaquery, key, _get_value_as_type(i).v)]
    ELSE LoopRaise(a, "ClientSideError", _get_value_as_type(i).v)

\* the body as it would be without the alias table
PlainStep_NoAlias(a, i, valid_keys) ==
    IF i.field \notin valid_keys
    THEN LoopRaise(a, "UnknownArgument", i.field)
    ELSE [a EXCEPT !.kwargs = Put(a.kwargs, i.field, i.value)]

\* the body of the loop for any other expression with operator eq
PlainStep(a, i, valid_keys) ==
    LET key == Get(translation, i.field, i.field)
    IN  IF key \notin valid_keys
        THEN LoopRaise(a, "UnknownArgument", key)
        ELSE [a EXCEPT !.kwargs = Put(a.kwargs, key, i.value)]

\* the body as it would be if search_offset were routed before the operator
\* is looked at
LoopStep_OffsetAnyOp(a, i, valid_keys) ==
    IF i.field = "timestamp" THEN TimestampStep(a, i)
    ELSE IF i.field = "search_offset"
         THEN [a EXCEPT !.stamp = Put(a.stamp, "search_offset", i.value)]
         ELSE IF get_op(i) = "eq"
              THEN IF StartsWithMetadata(i.field)
                   THEN MetadataStep(a, i, i.field)
                   ELSE IF StartsWithResourceMetadata(i.field)
                        THEN MetadataStep(a, i, Slice9(i.field))
                        ELSE PlainStep(a, i, valid_keys)
              ELSE LoopRaise(a, "InvalidInput", "op")

\* the body of the loop for expression i
LoopStep(a, i, valid_keys) ==
    IF i.field = "timestamp" THEN TimestampStep(a, i)
    ELSE IF get_op(i) = "eq"
         THEN IF i.field = "search_offset"
              THEN [a EXCEPT !.stamp = Put(a.stamp, "search_offset", i.value)]
              ELSE IF StartsWithMetadata(i.field)
                   THEN MetadataStep(a, i, i.field)
                   ELSE IF StartsWithResourceMetadata(i.field)
                        THEN MetadataStep(a, i, Slice9(i.field))
                        ELSE PlainStep(a, i, valid_keys)
         ELSE LoopRaise(a, "InvalidInput", "op")

\* the locals after the first n expressions of q: the loop stops at the
\* first expression that raises
RECURSIVE Loop(_, _, _)
Loop(q, n, valid_keys) ==
    IF n = 0 THEN LoopStart
    ELSE LET a == Loop(q, n - 1, valid_keys)
         IN  IF a.raised THEN a ELSE LoopStep(a, q[n], valid_keys)

\* the step as it would be without the test of valid_keys
WithMetaquery_Always(a, valid_keys) ==
    IF a.metaquery /= EmptyDict
    THEN Put(a.kwargs, "metaquery", a.metaquery)
    ELSE a.kwargs

\* kwargs['metaquery'] = metaquery, when there is one and the target takes it
WithMetaquery(a, valid_keys) ==
    IF a.metaquery /= EmptyDict /\ "metaquery" \in valid_keys
    THEN Put(a.kwargs, "metaquery", a.metaquery)
    ELSE a.kwargs

\* the two operator keys copied from stamp
WithStampOps(kwargs, stamp) ==
    LET k1 == IF "start_timestamp_op" \in DOMAIN stamp
              THEN Put(kwargs, "start_timestamp_op", stamp["start_timestamp_op"])
              ELSE kwargs
    IN  IF "end_timestamp_op" \in DOMAIN stamp
        THEN Put(k1, "end_timestamp_op", stamp["end_timestamp_op"])
        ELSE k1

\* the tail of the function, from "if stamp:" to the return
WithStamp(kwargs, stamp, valid_keys) ==
    IF stamp = EmptyDict THEN Returns(kwargs)
    ELSE LET q_ts == _get_query_timestamps(stamp)
         IN  IF ~q_ts.ok THEN Raise("ValueError", "timestamp")
             ELSE IF "start" \in valid_keys
                  THEN Returns(WithStampOps(
                           Put(Put(kwargs, "start", q_ts.query_start),
                               "end", q_ts.query_end), stamp))
             ELSE IF "start_timestamp" \in valid_keys
                  THEN Returns(WithStampOps(
                           Put(Put(kwargs, "start_timestamp", q_ts.query_start),
                               "end_timestamp", q_ts.query_end), stamp))
             ELSE Raise("UnknownArgument", "timestamp")

\* the set as it would be if it were taken before 'self' is appended
ValidKeys_BeforeAppend(args, internal_keys) == Elems(args) \ Elems(internal_keys)

\* valid_keys = set(valid_keys) - set(internal_keys), after 'self' is appended
ValidKeys(args, internal_keys) == Elems(args) \ Elems(Append(internal_keys, "self"))

\* the call _query_to_kwargs(query, db_func, internal_keys): its outcome, and
\* the two list objects it was handed as it leaves them
_query_to_kwargs(q, args, internal_keys, auth_project) ==
    LET s == _sanitize_query(q, args, auth_project)
        valid_keys == ValidKeys(args, internal_keys)
        a == Loop(s.q, Len(s.q), valid_keys)
    IN  IF ~s.ok
        THEN [out |-> Raise("ClientSideError", "Not Authorized"),
              q |-> q, internal_keys |-> internal_keys]
        ELSE [out |-> IF a.raised THEN Raise(a.exc, a.what)
                      ELSE WithStamp(WithMetaquery(a, valid_keys), a.stamp, valid_keys),
              q |-> s.q, internal_keys |-> Append(internal_keys, "self")]

----------------------------------------------------------------------------
(* _validate_groupby_fields *)

\* valid_fields
valid_fields == {"user_id", "resource_id", "project_id", "source"}

\* list(S) of a set S: its elements once each, in an order Python does not fix
ListsOf(S) == {p \in [1..Cardinality(S) -> S] : \A e \in S : \E n \in DOMAIN p : p[n] = e}

\* the function as it would be if it returned the list it was given
_validate_groupby_fields_AsGiven(groupby_fields) ==
    LET invalid_fields == Elems(groupby_fields) \ valid_fields
    IN  IF invalid_fields /= {}
        THEN {[ok |-> FALSE, exc |-> "UnknownArgument", what |-> invalid_fields,
               fields |-> <<>>]}
        ELSE {[ok |-> TRUE, exc |-> None, what |-> {}, fields |-> groupby_fields]}

\* the outcomes of _validate_groupby_fields(groupby_fields): the exception
\* with the invalid fields, or the fields without duplicates in some order
_validate_groupby_fields(groupby_fields) ==
    LET invalid_fields == Elems(groupby_fields) \ valid_fields
    IN  IF invalid_fields /= {}
        THEN {[ok |-> FALSE, exc |-> "UnknownArgument", what |-> invalid_fields,
               fields |-> <<>>]}
        ELSE {[ok |-> TRUE, exc |-> None, what |-> {}, fields |-> p] :
                 p \in ListsOf(Elems(groupby_fields))}

----------------------------------------------------------------------------
(* The requests: the storage calls the handlers compile for, the callers,   *)
(* and the expression lists.                                                *)

\* parameters of storage.SampleFilter.__init__ (MeterController.get_all, statistics)
SampleFilterArgs == <<"self", "user", "project", "start", "start_timestamp_op",
                      "end", "end_timestamp_op", "resource", "meter", "source",
                      "metaquery">>

\* parameters of storage_conn.get_meters (MetersController.get_all)
GetMetersArgs == <<"self", "user", "project", "resource", "source", "metaquery",
                   "pagination">>

\* parameters of storage_conn.get_resources (ResourcesController.get_all)
GetResourcesArgs == <<"self", "user", "project", "source", "start_timestamp",
                      "start_timestamp_op", "end_timestamp", "end_timestamp_op",
                      "metaquery", "resource", "pagination">>

\* parameters of storage_conn.get_alarm_changes (AlarmController.history)
GetAlarmChangesArgs == <<"self", "alarm_id", "on_behalf_of", "user", "project",
                         "type", "start_timestamp", "start_timestamp_op",
                         "end_timestamp", "end_timestamp_op">>

\* parameters of storage_conn.get_alarms (AlarmsController.get_all)
GetAlarmsArgs == <<"self", "name", "user", "project", "enabled", "alarm_id",
                   "pagination">>

\* a db_func that declares start without end or the operator keys
StartOnlyArgs == <<"self", "user", "project", "start">>

\* a db_func that declares the window keys of both styles
BothStylesArgs == <<"self", "user", "project", "start", "end", "start_timestamp",
                    "end_timestamp", "start_timestamp_op", "end_timestamp_op">>

\* the calls: db_func's parameters, and the internal_keys argument when one
\* is passed (else the default list is used)
Calls == {[args |-> SampleFilterArgs, use_default |-> TRUE, internal_keys |-> <<>>],
          [args |-> GetMetersArgs, use_default |-> TRUE, internal_keys |-> <<>>],
          [args |-> GetResourcesArgs, use_default |-> TRUE, internal_keys |-> <<>>],
          [args |-> GetAlarmChangesArgs, use_default |-> FALSE,
           internal_keys |-> <<"on_behalf_of">>],
          [args |-> GetAlarmChangesArgs, use_default |-> TRUE, internal_keys |-> <<>>],
          [args |-> GetAlarmsArgs, use_default |-> TRUE, internal_keys |-> <<>>],
          [args |-> StartOnlyArgs, use_default |-> TRUE, internal_keys |-> <<>>],
          [args |-> BothStylesArgs, use_default |-> TRUE, internal_keys |-> <<>>]}

\* acl.get_limited_to_project: None for an administrator, else the project
Callers == {None, "P"}

\* the handlers that take the list q, with the call each makes
Handlers ==
    {[name |-> "MeterController.get_all", args |-> SampleFilterArgs,
      use_default |-> TRUE, internal_keys |-> <<>>],
     [name |-> "MeterController.statistics", args |-> SampleFilterArgs,
      use_default |-> TRUE, internal_keys |-> <<>>],
     [name |-> "MetersController.get_all", args |-> GetMetersArgs,
      use_default |-> TRUE, internal_keys |-> <<>>],
     [name |-> "ResourcesController.get_all", args |-> GetResourcesArgs,
      use_default |-> TRUE, internal_keys |-> <<>>],
     [name |-> "AlarmController.history", args |-> GetAlarmChangesArgs,
      use_default |-> FALSE, internal_keys |-> <<"on_behalf_of">>],
     [name |-> "AlarmsController.get_all", args |-> GetAlarmsArgs,
      use_default |-> TRUE, internal_keys |-> <<>>]}

\* the callers of the requests that leave q out
HandlerCallers == {None, "P", "Q"}

\* expressions about the tenant scope
ScopeExprs == {Query("project_id", "eq", "P"), Query("project_id", "eq", "Q"),
               Query("project_id", "ne", "P"), Query("project_id", Unset, "P"),
               Query("project", "eq", "Q"), Query("bogus", "eq", "X")}

\* expressions on plain fields
PlainExprs == {Query("project_id", "eq", "P"), Query("project_id", "eq", "Q"),
               Query("user_id", "eq", "U"), Query("user_id", "gt", "U"),
               Query("on_behalf_of", "eq", "Q"), Query("bogus", "ne", "X")}

\* expressions about the time window
WindowExprs == {Query("timestamp", "gt", "2013-01-01T00:10:00"),
                Query("timestamp", "ge", "2013-01-01T00:30:00"),
                Query("timestamp", "lt", "2013-01-01T00:30:00"),
                Query("timestamp", "le", "2013-01-01T01:20:00+01:00"),
                Query("search_offset", "eq", "2"),
                Query("search_offset", "eq", "-1")}

\* expressions the window stage refuses
WindowErrorExprs == {Query("timestamp", "gt", "2013-01-01T00:10:00"),
                     Query("timestamp", "eq", "2013-01-01T00:10:00"),
                     Query("timestamp", "ne", "2013-01-01T00:10:00"),
                     Query("timestamp", "lt", "yesterday"),
                     Query("search_offset", "eq", "abc"),
                     Query("search_offset", "gt", "2")}

\* expressions on fields named like the keys of the window stage, and
\* timestamps without text
WindowKeyExprs == {Query("timestamp", "gt", "2013-01-01T00:10:00"),
                   Query("timestamp", "lt", "2013-01-01T00:30:00"),
                   Query("timestamp", "gt", ""),
                   Query("search_offset", "eq", "2"),
                   Query("start_timestamp_op", "eq", "x"),
                   Query("start", "eq", "x"),
                   Query("start_timestamp", "eq", "x")}

\* expressions about resource metadata
MetaExprs == {Query("metadata.flavor", "eq", "m1.tiny"),
              Query("resource_metadata.flavor", "eq", "m1.small"),
              Query("metadata.flavor", "ne", "m1.tiny"),
              TypedQuery("metadata.size", "eq", "5", "integer"),
              TypedQuery("metadata.size", "eq", "abc", "integer"),
              Query("metaquery", "eq", "x")}

\* expressions of every kind, to mix in one list
MixedExprs == {Query("project_id", "eq", "P"), Query("project", "eq", "Q"),
               Query("bogus", "ne", "X"),
               Query("timestamp", "gt", "2013-01-01T00:10:00"),
               Query("timestamp", "le", "2013-01-01T00:30:00"),
               Query("search_offset", "eq", "2"),
               Query("metadata.flavor", "eq", "m1.tiny")}

\* the values and the declared types of the metadata expressions converted
\* on their own
CoerceValues == {"5", "-1", "0", "1", "1.5", "abc", "", "true", "True", "YES",
                 "no", "off", "m1.tiny"}
CoerceTypes == {Unset, "", "integer", "float", "boolean", "string", "date",
                "datetime"}

\* the field names of a groupby argument
GroupByFields == {"user_id", "resource_id", "project_id", "source", "bogus",
                  "metadata.flavor"}

\* expressions on fields named like internal keys
InternalExprs == {Query("self", "eq", "x"), Query("on_behalf_of", "eq", "Q"),
                  Query("user_id", "eq", "U")}

\* the sets the expressions of one list are drawn from
Universes == {ScopeExprs, PlainExprs, WindowExprs, WindowErrorExprs,
              WindowKeyExprs, MetaExprs, MixedExprs, InternalExprs}

\* the lists of at most n expressions of S
SeqsUpTo(S, n) == UNION {[1..k -> S] : k \in 0..n}

\* the expression lists of the requests
Queries == UNION {SeqsUpTo(U, MaxLen) : U \in Universes}

\* the groupby arguments of the requests
GroupBys == SeqsUpTo(GroupByFields, MaxGroupBy)

----------------------------------------------------------------------------
(* The state machine. *)

\* no call has returned yet
NoOutcome == [ok |-> FALSE, exc |-> None, what |-> "idle", kwargs |-> EmptyDict]

Init ==
    /\ pc = "idle"
    /\ query = <<>>
    /\ query0 = <<>>
    /\ db_args = <<>>
    /\ ikeys = <<>>
    /\ ikeys0 = <<>>
    /\ use_default = FALSE
    /\ auth = None
    /\ outcome = NoOutcome
    /\ default_internal_keys = <<>>
    /\ first = <<>>
    /\ earlier = <<>>
    /\ arg = None
    /\ ret = None
    /\ handler = None
    /\ default_q = [h \in {x.name : x \in Handlers} |-> <<>>]
    /\ alarm_store = {}
    /\ alarm_changes = {}
    /\ post = [p \in 1..MaxPosts |-> [pc |-> "idle"]]

\* the effects of one call of _query_to_kwargs on the state
Called(q, c, a, given, r) ==
    /\ pc' = "done"
    /\ query0' = q
    /\ query' = r.q
    /\ db_args' = c.args
    /\ auth' = a
    /\ ikeys0' = given
    /\ use_default' = c.use_default
    /\ ikeys' = r.internal_keys
    /\ outcome' = r.out
    /\ default_internal_keys' = IF c.use_default THEN r.internal_keys
                                ELSE default_internal_keys
    /\ UNCHANGED <<arg, ret>>
    /\ UNCHANGED alarm_vars

\* a handler calls _query_to_kwargs(q, db_func) or
\* _query_to_kwargs(q, db_func, internal_keys) for a caller
Compile ==
    /\ pc = "idle"
    /\ \E q \in Queries, c \in Calls, a \in Callers :
          /\ c.use_default => Len(default_internal_keys) < MaxDefaultKeys
          /\ LET given == IF c.use_default THEN default_internal_keys
                          ELSE c.internal_keys
             IN  Called(q, c, a, given, _query_to_kwargs(q, c.args, given, a))
          /\ first' = q
          /\ earlier' = <<>>
    /\ UNCHANGED <<handler, default_q>>

\* the same list object is compiled again, for the same caller and target,
\* after a compile that succeeded
Recompile ==
    /\ pc = "done"
    /\ outcome.ok
    /\ Len(earlier) + 1 < MaxRounds
    /\ use_default => Len(default_internal_keys) < MaxDefaultKeys
    /\ LET c == [args |-> db_args, use_default |-> use_default]
           given == IF use_default THEN default_internal_keys ELSE ikeys0
       IN  Called(query, c, auth, given, _query_to_kwargs(query, db_args, given, auth))
    /\ first' = first
    /\ earlier' = Append(earlier, outcome)
    /\ UNCHANGED <<handler, default_q>>

\* the loop converts the value of one metadata expression
Coerce ==
    /\ pc = "idle"
    /\ \E v \in CoerceValues, t \in CoerceTypes :
          /\ arg' = TypedQuery("metadata.size", "eq", v, t)
          /\ ret' = _get_value_as_type(TypedQuery("metadata.size", "eq", v, t))
    /\ pc' = "coerced"
    /\ UNCHANGED <<query, query0, db_args, ikeys, ikeys0, use_default, auth, outcome,
                   default_internal_keys, first, earlier, handler, default_q>>
    /\ UNCHANGED alarm_vars

\* statistics validates its groupby argument
ValidateGroupby ==
    /\ pc = "idle"
    /\ \E g \in GroupBys : \E r \in _validate_groupby_fields(g) :
          /\ arg' = g
          /\ ret' = r
    /\ pc' = "validated"
    /\ UNCHANGED <<query, query0, db_args, ikeys, ikeys0, use_default, auth, outcome,
                   default_internal_keys, first, earlier, handler, default_q>>
    /\ UNCHANGED alarm_vars

\* the request ends: its objects are dropped, the function's default stays
Finish ==
    /\ pc /= "idle"
    /\ pc' = "idle"
    /\ query' = <<>>
    /\ query0' = <<>>
    /\ db_args' = <<>>
    /\ ikeys' = <<>>
    /\ ikeys0' = <<>>
    /\ use_default' = FALSE
    /\ auth' = None
    /\ outcome' = NoOutcome
    /\ first' = <<>>
    /\ earlier' = <<>>
    /\ arg' = None
    /\ ret' = None
    /\ handler' = None
    /\ UNCHANGED <<default_internal_keys, default_q>>
    /\ UNCHANGED alarm_vars

Next == Compile \/ Recompile \/ Coerce \/ ValidateGroupby \/ Finish

Spec == Init /\ [][Next]_vars

\* a request that leaves q out: the handler runs with the list object that
\* is the default of its parameter q, and compiles it
HandleDefault ==
    /\ pc = "idle"
    /\ \E h \in Handlers, a \in HandlerCallers :
          /\ h.use_default => Len(default_internal_keys) < MaxDefaultKeys
          /\ LET q == default_q[h.name]
                 given == IF h.use_default THEN default_internal_keys
                          ELSE h.internal_keys
                 r == _query_to_kwargs(q, h.args, given, a)
             IN  /\ Called(q, h, a, given, r)
                 /\ first' = q
                 /\ default_q' = [default_q EXCEPT ![h.name] = r.q]
          /\ handler' = h.name
    /\ earlier' = <<>>

\* the requests that leave q out, one after the other
NextHandlers == HandleDefault \/ Finish

SpecHandlers == Init /\ [][NextHandlers]_vars

----------------------------------------------------------------------------
(* AlarmsController.post, one step per call to the storage connection, for *)
(* requests served side by side.  An alarm is kept as its alarm_id, name    *)
(* and project_id; the alarm_id of request p, a fresh uuid, is p.           *)

\* the names and the X-Project-Id headers of the requests
AlarmNames == {"cpu_high", "disk_full"}
AlarmProjects == {"P", "Q"}

\* conn.get_alarms(name=..., project=...)
get_alarms(name, project) ==
    {a \in alarm_store : a.name = name /\ a.project_id = project}

\* the request arrives: data gets its alarm_id and the project of the caller;
\* valid tells whether storage.models.Alarm(**kwargs) will take the body
PostBegin ==
    /\ \E p \in 1..MaxPosts :
          /\ post[p].pc = "idle"
          /\ \E name \in AlarmNames, project \in AlarmProjects, valid \in BOOLEAN :
                post' = [post EXCEPT ![p] =
                            [pc |-> "begun", alarm_id |-> p, name |-> name,
                             project_id |-> project, valid |-> valid,
                             existed |-> get_alarms(name, project) /= {}]]
    /\ UNCHANGED <<alarm_store, alarm_changes>>
    /\ UNCHANGED request_vars

\* alarms = list(conn.get_alarms(...)); len(alarms) > 0 is the error
PostCheckPasses(p) == get_alarms(post[p].name, post[p].project_id) = {}

\* the uniqueness check, then the construction of the alarm to store
PostCheck ==
    /\ \E p \in 1..MaxPosts :
          /\ post[p].pc = "begun"
          /\ post' = [post EXCEPT ![p].pc =
                         IF ~PostCheckPasses(p) THEN "Alarm with that name exists"
                         ELSE IF ~post[p].valid THEN "Alarm incorrect"
                         ELSE "checked"]
    /\ UNCHANGED <<alarm_store, alarm_changes>>
    /\ UNCHANGED request_vars

\* alarm = conn.create_alarm(alarm_in)
PostCreate ==
    /\ \E p \in 1..MaxPosts :
          /\ post[p].pc = "checked"
          /\ alarm_store' = alarm_store \cup
                 {[alarm_id |-> post[p].alarm_id, name |-> post[p].name,
                   project_id |-> post[p].project_id]}
          /\ post' = [post EXCEPT ![p].pc = "created"]
    /\ UNCHANGED alarm_changes
    /\ UNCHANGED request_vars

\* self._record_creation(...), which records the change unless
\* record_history is off or the connection does not implement it
PostRecord ==
    /\ \E p \in 1..MaxPosts :
          /\ post[p].pc = "created"
          /\ \E recorded \in BOOLEAN :
                alarm_changes' = IF recorded
                                 THEN alarm_changes \cup
                                         {[alarm_id |-> post[p].alarm_id,
                                           type |-> "creation",
                                           on_behalf_of |-> post[p].project_id]}
                                 ELSE alarm_changes
          /\ post' = [post EXCEPT ![p].pc = "done"]
    /\ UNCHANGED alarm_store
    /\ UNCHANGED request_vars

NextAlarms == PostBegin \/ PostCheck \/ PostCreate \/ PostRecord

SpecAlarms == Init /\ [][NextAlarms]_vars

----------------------------------------------------------------------------
(* MeterController.post.  A sample is kept as the fields the checks read;  *)
(* the result tells how the request ended and lists the calls made to the  *)
(* publisher, each with the list it was given.                             *)

\* sample.TYPES
TYPES == {"gauge", "delta", "cumulative"}

\* the samples a body can hold
Samples ==
    [counter_name : {"m", "other"}, message_id : {Unset, "id1"},
     counter_type : {"gauge", "bogus"}, project_id : {Unset, "P", "Q"}]

\* the bodies of the requests
Bodies == SeqsUpTo(Samples, MaxSamples)

\* acl.get_limited_to_project(headers), and the X-Project-Id header
PostCallers == {None, "P"}
PostProjects == {None, "P", "Q"}

\* s.project_id = (s.project_id or def_project_id)
ResolvedProject(s, def_project_id) ==
    IF Truthy(s.project_id) THEN s.project_id ELSE def_project_id

\* sample.Sample(name=..., type=..., project_id=..., ...)
published_sample(s, def_project_id) ==
    [name |-> s.counter_name, type |-> s.counter_type,
     project_id |-> ResolvedProject(s, def_project_id)]

\* the raise as it would be if what was collected so far were published
\* first
InvalidInput_AfterPublishing(what, published_samples) ==
    [ok |-> FALSE, exc |-> "InvalidInput", what |-> what,
     publisher |-> IF published_samples = <<>> THEN <<>>
                   ELSE <<published_samples>>]

\* raise wsme.exc.InvalidInput(...) inside the loop: the request ends before
\* the publisher is reached
InvalidInput(what, published_samples) ==
    [ok |-> FALSE, exc |-> "InvalidInput", what |-> what, publisher |-> <<>>]

\* for s in samples: ..., then publisher(published_samples)
RECURSIVE PostLoop(_, _, _, _, _)
PostLoop(samples, published_samples, _id, auth_project, def_project_id) ==
    IF samples = <<>>
    THEN [ok |-> TRUE, exc |-> None, what |-> None,
          publisher |-> <<published_samples>>]
    ELSE LET s == Head(samples)
         IN IF _id /= s.counter_name
            THEN InvalidInput("counter_name", published_samples)
            ELSE IF Truthy(s.message_id)
            THEN InvalidInput("message_id", published_samples)
            ELSE IF s.counter_type \notin TYPES
            THEN InvalidInput("counter_type", published_samples)
            ELSE IF Truthy(auth_project)
                    /\ auth_project /= ResolvedProject(s, def_project_id)
            THEN InvalidInput("project_id", published_samples)
            ELSE PostLoop(Tail(samples),
                          Append(published_samples,
                                 published_sample(s, def_project_id)),
                          _id, auth_project, def_project_id)

\* MeterController(_id).post(body)
MeterController_post(body, _id, auth_project, def_project_id) ==
    PostLoop(body, <<>>, _id, auth_project, def_project_id)

\* a request posts samples for the meter m
PostSamples ==
    /\ pc = "idle"
    /\ \E body \in Bodies, auth_project \in PostCallers,
          def_project_id \in PostProjects :
          /\ arg' = [body |-> body, _id |-> "m", auth_project |-> auth_project,
                     def_project_id |-> def_project_id]
          /\ ret' = MeterController_post(body, "m", auth_project, def_project_id)
    /\ pc' = "posted"
    /\ UNCHANGED <<query, query0, db_args, ikeys, ikeys0, use_default, auth, outcome,
                   default_internal_keys, first, earlier, handler, default_q>>
    /\ UNCHANGED alarm_vars

NextSamples == PostSamples \/ Finish

SpecSamples == Init /\ [][NextSamples]_vars

----------------------------------------------------------------------------
(* Vocabulary of the properties. *)

\* a call has returned and its request is still there
Done == pc = "done"

\* the caller is restricted to a project
Restricted == Truthy(auth)

\* the accepted-field set of the call: db_func's parameters without 'self'
\* and the internal keys handed in
Accepted == Elems(db_args) \ (Elems(ikeys) \cup {"self"})

\* the call failed with the not-authorized client error
FailedNotAuthorized ==
    ~outcome.ok /\ outcome.exc = "ClientSideError" /\ outcome.what = "Not Authorized"

\* expression i is a project filter other than "project_id eq <caller's project>"
ForeignProject(i) ==
    i.field = "project_id" /\ (get_op(i) /= "eq" \/ i.value /= auth)

\* the positions of list q whose expression satisfies Test
Positions(q, Test(_)) == {n \in 1..Len(q) : Test(q[n])}

\* the last position of a non-empty set of positions
Last(S) == CHOOSE n \in S : \A m \in S : m <= n

\* the alias a plain field name stands for
Alias(f) == CASE f = "user_id" -> "user"
              [] f = "project_id" -> "project"
              [] f = "resource_id" -> "resource"
              [] OTHER -> f

\* expression i is in the metadata namespace
IsMetadata(i) == StartsWithMetadata(i.field) \/ StartsWithResourceMetadata(i.field)

\* expression i is a plain one: not timestamp, not search_offset, not metadata
IsPlain(i) == i.field \notin {"timestamp", "search_offset"} /\ ~IsMetadata(i)

\* a plain expression with operator eq
PlainEq(i) == IsPlain(i) /\ get_op(i) = "eq"

\* an expression on another field than timestamp with another operator than eq
NonEqOffTimestamp(i) == i.field /= "timestamp" /\ get_op(i) /= "eq"

\* timestamp expressions for the lower and for the upper bound
LowerExpr(i) == i.field = "timestamp" /\ get_op(i) \in {"gt", "ge"}
UpperExpr(i) == i.field = "timestamp" /\ get_op(i) \in {"lt", "le"}

\* a search_offset expression that is taken
OffsetExpr(i) == i.field = "search_offset" /\ get_op(i) = "eq"

\* an expression that feeds the window resolver
StampExpr(i) == LowerExpr(i) \/ UpperExpr(i) \/ OffsetExpr(i)

\* a metadata expression that is taken
MetaEq(i) == IsMetadata(i) /\ get_op(i) = "eq"

\* expression i is in error on its own account, for the accepted-field set
InErrorFor(i, accepted) ==
    IF i.field = "timestamp" THEN ~(LowerExpr(i) \/ UpperExpr(i))
    ELSE IF get_op(i) /= "eq" THEN TRUE
    ELSE IF i.field = "search_offset" THEN FALSE
    ELSE IF IsMetadata(i) THEN ~_get_value_as_type(i).ok
    ELSE Alias(i.field) \notin accepted

\* expression i is in error on its own account, in this call
InError(i) == InErrorFor(i, Accepted)

\* the position of the first expression in error of the list the loop runs
\* over, or 0 when there is none
FirstInError ==
    LET accepted == Accepted
        S == Positions(query, LAMBDA i : InErrorFor(i, accepted))
    IN  IF S = {} THEN 0 ELSE CHOOSE n \in S : \A m \in S : n <= m

\* the keys the metadata and window stages write after the loop
WrittenAfterLoop ==
    (IF Positions(query, MetaEq) /= {} THEN {"metaquery"} ELSE {})
    \cup (IF Positions(query, StampExpr) = {} THEN {}
          ELSE IF "start" \in Accepted THEN {"start", "end"}
          ELSE {"start_timestamp", "end_timestamp"})
    \cup (IF Positions(query, LowerExpr) /= {} THEN {"start_timestamp_op"} ELSE {})
    \cup (IF Positions(query, UpperExpr) /= {} THEN {"end_timestamp_op"} ELSE {})

\* the positions of the plain eq expressions that resolve to key
PlainFor(key) == Positions(query, LAMBDA i : PlainEq(i) /\ Alias(i.field) = key)

\* the descriptor keys the window goes under for this target
LowerKey == IF "start" \in Accepted THEN "start" ELSE "start_timestamp"
UpperKey == IF "start" \in Accepted THEN "end" ELSE "end_timestamp"

\* the search offset in force: that of the last search_offset expression
\* taken, or 0 without one
OffsetInForce ==
    IF Positions(query0, OffsetExpr) = {} THEN 0
    ELSE IntLiterals[query0[Last(Positions(query0, OffsetExpr))].value]

\* the text of the last timestamp expression for a bound
BoundText(Test(_)) == query0[Last(Positions(query0, Test))].value

\* a bound is supplied: by a timestamp expression for it, with a text
Supplied(Test(_)) == Positions(query0, Test) /= {} /\ BoundText(Test) /= ""

\* the bound the descriptor must carry: None when not supplied, else the
\* requested time moved by delta minutes
Widened(Test(_), delta) ==
    IF Supplied(Test) THEN <<IsoTimes[BoundText(Test)] + delta>> ELSE NoneTime

\* the metaquery key a metadata-namespaced field name goes under: the name
\* itself, or the name without 'resource_'
MetaKey(f) == IF f = "resource_metadata.flavor" THEN "metadata.flavor" ELSE f

\* the positions of the metadata eq expressions that go under key
MetaFor(key) == Positions(query, LAMBDA i : MetaEq(i) /\ MetaKey(i.field) = key)

\* a metadata eq expression whose value converts
MetaEqGood(i) == MetaEq(i) /\ _get_value_as_type(i).ok

\* the metaquery the metadata eq expressions of the compiled list make: one
\* entry per key, with the converted value of the last expression for it
ExpectedMetaquery ==
    [k \in {MetaKey(query[n].field) : n \in Positions(query, MetaEq)}
        |-> _get_value_as_type(query[Last(MetaFor(k))]).v]

\* list q without its metadata eq expressions
WithoutMeta(q) == SelectSeq(q, LAMBDA i : ~MetaEq(i))

\* the outcome of this call had the list been q
OutcomeFor(q) == _query_to_kwargs(q, db_args, ikeys0, auth).out

----------------------------------------------------------------------------
(* C1: for a restricted caller with project P and a target that does not    *)
(* take on_behalf_of, every successful compile yields a descriptor whose    *)
(* 'project' key is present and equal to P.                                 *)
C1_ProjectScope ==
    (Done /\ Restricted /\ "on_behalf_of" \notin Elems(db_args) /\ outcome.ok)
        => ("project" \in DOMAIN outcome.kwargs /\ outcome.kwargs["project"] = auth)

(* C2: for a restricted caller, a list holding a project_id expression with *)
(* an operator other than eq or a value other than the caller's project     *)
(* fails with the not-authorized client error, whatever else the list holds *)
(* and whether or not the target takes on_behalf_of.                        *)
C2_ForeignProjectRejected ==
    (Done /\ Restricted /\ Positions(query0, ForeignProject) /= {})
        => FailedNotAuthorized

\* C2's case: the foreign project filter comes after an expression that is
\* itself invalid, for a target that takes on_behalf_of
C2_Witness ==
    /\ Done /\ Restricted /\ FailedNotAuthorized
    /\ Len(query0) = 3
    /\ query0[1].field = "bogus"
    /\ ForeignProject(query0[3])
    /\ "on_behalf_of" \in Elems(db_args)

(* C3: for a restricted caller the rewriter appends exactly the expression  *)
(* (project_id, eq, P) when the list has no project_id expression and       *)
(* on_behalf_of is not among db_func's parameters (internal keys included), *)
(* and appends nothing otherwise; when it appended and the compile          *)
(* succeeds, the descriptor's project is P.                                 *)
C3_ImplicitProject ==
    (Done /\ Restricted) =>
        /\ query = IF /\ Positions(query0, LAMBDA i : i.field = "project_id") = {}
                      /\ "on_behalf_of" \notin Elems(db_args)
                   THEN Append(query0, Query("project_id", "eq", auth))
                   ELSE query0
        /\ (query /= query0 /\ outcome.ok) =>
               ("project" \in DOMAIN outcome.kwargs /\ outcome.kwargs["project"] = auth)

\* C3's case: a list without project filter compiled with the injected one
C3_Witness ==
    /\ Done /\ Restricted /\ outcome.ok
    /\ Len(query0) = 2 /\ Len(query) = 3
    /\ query[3] = Query("project_id", "eq", auth)
    /\ outcome.kwargs["project"] = auth

\* C3's other case: on_behalf_of is a parameter and an internal key, so
\* nothing is appended
C3_WitnessOnBehalfOf ==
    /\ Done /\ Restricted /\ outcome.ok
    /\ "on_behalf_of" \in Elems(db_args) /\ "on_behalf_of" \in Elems(ikeys)
    /\ query0 /= <<>> /\ query = query0

(* C4: for a privileged caller the rewriter leaves the list as it was and   *)
(* rejects nothing, whatever project_id expressions the list holds.         *)
C4_PrivilegedUnchanged ==
    (Done /\ ~Restricted) => (query = query0 /\ ~FailedNotAuthorized)

\* C4's case: an administrator filters on two projects and compiles
C4_Witness ==
    /\ Done /\ ~Restricted /\ outcome.ok
    /\ Len(query0) = 2
    /\ query0[1] = Query("project_id", "eq", "Q")
    /\ query0[2] = Query("project_id", "eq", "P")
    /\ outcome.kwargs["project"] = "P"

(* C5: every key of every successful descriptor is in the target's          *)
(* accepted-field set (its parameters less the internal keys).              *)
C5_OnlyAcceptedKeys ==
    (Done /\ outcome.ok) => (DOMAIN outcome.kwargs \subseteq Accepted)

(* C6, as stated: a plain expression with operator eq whose aliased name is *)
(* an accepted field has its raw value under that name in the descriptor;   *)
(* one whose aliased name is not accepted makes the compile fail with the   *)
(* unknown-field error.                                                     *)
C6_PlainFieldAsStated ==
    Done => \A n \in Positions(query, PlainEq) :
        IF Alias(query[n].field) \in Accepted
        THEN outcome.ok =>
                /\ Alias(query[n].field) \in DOMAIN outcome.kwargs
                /\ outcome.kwargs[Alias(query[n].field)] = query[n].value
        ELSE ~outcome.ok /\ outcome.exc = "UnknownArgument"

(* C6, amended: in a successful descriptor every plain eq expression has    *)
(* an accepted aliased name, which is a key of the descriptor and, unless   *)
(* the metadata or window stage wrote that key afterwards, maps to the raw  *)
(* value of the last plain eq expression with that aliased name.  A plain   *)
(* eq expression whose aliased name is not accepted makes the compile fail, *)
(* with the unknown-field error naming it when it is the first expression   *)
(* in error of an authorized list; and the unknown-field error is raised    *)
(* for no other expression.                                                 *)
C6_PlainFieldLastWins ==
    Done =>
        /\ outcome.ok =>
              LET written == WrittenAfterLoop
                  accepted == Accepted
              IN  \A n \in Positions(query, PlainEq) :
                      LET key == Alias(query[n].field)
                      IN  /\ key \in accepted
                          /\ key \in DOMAIN outcome.kwargs
                          /\ key \notin written
                                => outcome.kwargs[key] = query[Last(PlainFor(key))].value
        /\ (\E n \in Positions(query, PlainEq) : Alias(query[n].field) \notin Accepted)
              => ~outcome.ok
        /\ LET n == FirstInError
           IN  (~FailedNotAuthorized /\ n /= 0 /\ PlainEq(query[n]))
                  => /\ ~outcome.ok
                     /\ outcome.exc = "UnknownArgument"
                     /\ outcome.what = Alias(query[n].field)
        /\ (~outcome.ok /\ outcome.exc = "UnknownArgument" /\ outcome.what /= "timestamp")
              => /\ PlainFor(outcome.what) /= {}
                 /\ outcome.what \notin Accepted

\* C6's case: two filters on one aliased name, the later one kept, beside a
\* third accepted through the alias table
C6_Witness ==
    /\ Done /\ outcome.ok
    /\ Len(query0) = 3
    /\ query0[1] = Query("project_id", "eq", "P")
    /\ query0[2] = Query("user_id", "eq", "U")
    /\ query0[3] = Query("project_id", "eq", "Q")
    /\ outcome.kwargs["project"] = "Q"
    /\ outcome.kwargs["user"] = "U"

\* C6's other case: a handler-supplied internal key is refused as a field
C6_WitnessInternalKey ==
    /\ Done /\ ~outcome.ok
    /\ outcome.exc = "UnknownArgument" /\ outcome.what = "on_behalf_of"
    /\ "on_behalf_of" \in Elems(db_args)

(* C7, as stated: an expression on another field than timestamp with        *)
(* another operator than eq makes the compile fail with the invalid-input   *)
(* error.                                                                   *)
C7_NonEqAsStated ==
    (Done /\ Positions(query0, NonEqOffTimestamp) /= {})
        => (~outcome.ok /\ outcome.exc = "InvalidInput")

(* C7, amended: such an expression makes the compile fail, and the error is *)
(* the invalid-input (unimplemented operator) error when no error comes     *)
(* before it: the list is authorized and the expression is the first one    *)
(* in error.  This is so for plain fields, search_offset and metadata       *)
(* fields, whether or not the field name is accepted.                       *)
C7_NonEqFails ==
    Done =>
        /\ Positions(query0, NonEqOffTimestamp) /= {} => ~outcome.ok
        /\ LET n == FirstInError
           IN  (~FailedNotAuthorized /\ n /= 0 /\ NonEqOffTimestamp(query[n]))
                  => /\ ~outcome.ok
                     /\ outcome.exc = "InvalidInput"
                     /\ outcome.what = "op"

\* C7's case: the invalid-input error for search_offset with gt, after two
\* expressions that are fine
C7_Witness ==
    /\ Done /\ ~outcome.ok /\ outcome.exc = "InvalidInput"
    /\ Len(query0) = 3
    /\ ~InError(query0[1]) /\ ~InError(query0[2])
    /\ query0[3] = Query("search_offset", "gt", "2")

\* C7's other case: an unknown field name with ne gets the operator error
C7_WitnessUnknownField ==
    /\ Done /\ ~outcome.ok /\ outcome.exc = "InvalidInput"
    /\ query0 /= <<>>
    /\ query0[1] = Query("bogus", "ne", "X")

(* C8: a timestamp expression with eq or ne fails the compile; in every     *)
(* successful descriptor start_timestamp_op is present exactly when a       *)
(* timestamp gt/ge expression was supplied, and is then the operator of the *)
(* last such expression, and likewise end_timestamp_op for lt/le.           *)
C8_TimestampOperators ==
    Done =>
        /\ Positions(query0, LAMBDA i : i.field = "timestamp"
                                        /\ get_op(i) \in {"eq", "ne"}) /= {}
              => ~outcome.ok
        /\ outcome.ok =>
              /\ "start_timestamp_op" \in DOMAIN outcome.kwargs
                    <=> Positions(query0, LowerExpr) /= {}
              /\ "start_timestamp_op" \in DOMAIN outcome.kwargs
                    => /\ outcome.kwargs["start_timestamp_op"] \in {"gt", "ge"}
                       /\ outcome.kwargs["start_timestamp_op"]
                             = get_op(query0[Last(Positions(query0, LowerExpr))])
              /\ "end_timestamp_op" \in DOMAIN outcome.kwargs
                    <=> Positions(query0, UpperExpr) /= {}
              /\ "end_timestamp_op" \in DOMAIN outcome.kwargs
                    => /\ outcome.kwargs["end_timestamp_op"] \in {"lt", "le"}
                       /\ outcome.kwargs["end_timestamp_op"]
                             = get_op(query0[Last(Positions(query0, UpperExpr))])

(* C9: in a successful descriptor of a query with a timestamp or            *)
(* search_offset expression, the lower bound is the time of the last        *)
(* timestamp gt/ge expression minus the offset in minutes and the upper     *)
(* bound is the time of the last timestamp lt/le expression plus the        *)
(* offset, the offset being that of the last search_offset expression       *)
(* wherever it sits, or 0; a bound that no timestamp expression supplies    *)
(* (or supplies with an empty text) is None whatever the offset.            *)
C9_WindowArithmetic ==
    (Done /\ outcome.ok /\ Positions(query0, StampExpr) /= {}) =>
        /\ {LowerKey, UpperKey} \subseteq DOMAIN outcome.kwargs
        /\ outcome.kwargs[LowerKey] = Widened(LowerExpr, 0 - OffsetInForce)
        /\ outcome.kwargs[UpperKey] = Widened(UpperExpr, OffsetInForce)

\* C9's case: the offset comes first in the list, then both bounds
C9_Witness ==
    /\ Done /\ outcome.ok
    /\ Len(query0) = 3
    /\ query0[1] = Query("search_offset", "eq", "2")
    /\ query0[2] = Query("timestamp", "lt", "2013-01-01T00:30:00")
    /\ query0[3] = Query("timestamp", "gt", "2013-01-01T00:10:00")
    /\ "start" \in DOMAIN outcome.kwargs
    /\ outcome.kwargs["start"] = <<8>>
    /\ outcome.kwargs["end"] = <<32>>

\* C9's other cases: no offset, and one bound alone
C9_WitnessNoOffset ==
    /\ Done /\ outcome.ok
    /\ Positions(query0, OffsetExpr) = {}
    /\ "start_timestamp" \in DOMAIN outcome.kwargs
    /\ outcome.kwargs["start_timestamp"] = <<10>>
    /\ outcome.kwargs["end_timestamp"] = NoneTime

(* C10: a search_offset value that is not the text of a non-negative        *)
(* integer is rejected, and in every successful descriptor the lower bound  *)
(* is at or before the requested start and the upper bound at or after the  *)
(* requested end.                                                           *)
C10_OffsetOnlyWidens ==
    Done =>
        /\ (\E n \in Positions(query0, OffsetExpr) :
                \/ query0[n].value \notin DOMAIN IntLiterals
                \/ IntLiterals[query0[n].value] < 0)
              => ~outcome.ok
        /\ (outcome.ok /\ Supplied(LowerExpr))
              => outcome.kwargs[LowerKey][1] <= IsoTimes[BoundText(LowerExpr)]
        /\ (outcome.ok /\ Supplied(UpperExpr))
              => outcome.kwargs[UpperKey][1] >= IsoTimes[BoundText(UpperExpr)]

(* C11: when a timestamp gt/ge/lt/le expression is supplied, a successful  *)
(* descriptor carries the window under start and end and has neither       *)
(* start_timestamp nor end_timestamp if the target declares start, and     *)
(* under start_timestamp and end_timestamp without start or end if it      *)
(* declares start_timestamp only; if the target declares neither the       *)
(* compile fails, with the unknown-argument error for 'timestamp' when no  *)
(* other error comes first.                                                *)
C11_WindowKeyNaming ==
    (Done /\ Positions(query0, LAMBDA i : LowerExpr(i) \/ UpperExpr(i)) /= {}) =>
        LET keys == DOMAIN outcome.kwargs
            accepted == Accepted
        IN  /\ (outcome.ok /\ "start" \in accepted)
                  => /\ {"start", "end"} \subseteq keys
                     /\ keys \cap {"start_timestamp", "end_timestamp"} = {}
            /\ (outcome.ok /\ "start" \notin accepted /\ "start_timestamp" \in accepted)
                  => /\ {"start_timestamp", "end_timestamp"} \subseteq keys
                     /\ keys \cap {"start", "end"} = {}
            /\ ("start" \notin accepted /\ "start_timestamp" \notin accepted)
                  => /\ ~outcome.ok
                     /\ (~FailedNotAuthorized /\ FirstInError = 0
                            /\ outcome.exc /= "ValueError")
                           => (outcome.exc = "UnknownArgument"
                               /\ outcome.what = "timestamp")

(* C12: in a successful descriptor for a target that takes metaquery, an   *)
(* eq expression on metadata.X is under the key metadata.X of metaquery    *)
(* and one on resource_metadata.X under metadata.X too, each key with the  *)
(* converted value of the last expression that goes under it.  Metadata    *)
(* fields are not checked against the accepted-field set: the              *)
(* unknown-argument error never names one, and a list of metadata eq       *)
(* expressions whose values convert compiles for every target.             *)
C12_MetadataKeys ==
    Done =>
        /\ (outcome.ok /\ "metaquery" \in Accepted /\ Positions(query, MetaEq) /= {})
              => /\ "metaquery" \in DOMAIN outcome.kwargs
                 /\ outcome.kwargs["metaquery"] = ExpectedMetaquery
        /\ (~outcome.ok /\ outcome.exc = "UnknownArgument")
              => /\ ~StartsWithMetadata(outcome.what)
                 /\ ~StartsWithResourceMetadata(outcome.what)
        /\ (\A n \in 1..Len(query0) : MetaEqGood(query0[n])) => outcome.ok

\* C12's case: the same key through both namespaces, the later value kept,
\* beside a typed value under another key
C12_Witness ==
    /\ Done /\ outcome.ok
    /\ Len(query0) = 3
    /\ query0[1] = Query("metadata.flavor", "eq", "m1.tiny")
    /\ query0[2] = TypedQuery("metadata.size", "eq", "5", "integer")
    /\ query0[3] = Query("resource_metadata.flavor", "eq", "m1.small")
    /\ "metaquery" \in DOMAIN outcome.kwargs
    /\ outcome.kwargs["metaquery"]
          = ("metadata.flavor" :> <<"str", "m1.small">>) @@ ("metadata.size" :> <<"int", 5>>)

\* C12's other case: metadata expressions compile for a target that has
\* no metaquery parameter
C12_WitnessNotChecked ==
    /\ Done /\ outcome.ok
    /\ "metaquery" \notin Elems(db_args)
    /\ Positions(query0, MetaEq) /= {}

(* C13, as stated: for a target that does not take metaquery the          *)
(* descriptor has no metaquery key and the outcome is that of the list     *)
(* without its metadata eq expressions; for a target that takes it and a   *)
(* list with a metadata eq expression, a successful descriptor has         *)
(* metaquery with exactly the converted entries.                           *)
C13_DroppedAsStated ==
    Done =>
        /\ "metaquery" \notin Accepted
              => /\ "metaquery" \notin DOMAIN outcome.kwargs
                 /\ outcome = OutcomeFor(WithoutMeta(query0))
        /\ ("metaquery" \in Accepted /\ outcome.ok /\ Positions(query0, MetaEq) /= {})
              => /\ "metaquery" \in DOMAIN outcome.kwargs
                 /\ outcome.kwargs["metaquery"] = ExpectedMetaquery

(* C13, amended: for a target that does not take metaquery the descriptor  *)
(* has no metaquery key, and the outcome is that of the list without its   *)
(* metadata eq expressions when the value of each of them converts; one    *)
(* whose value does not convert makes the compile fail, whatever the       *)
(* target.  For a target that takes metaquery and a list with a metadata   *)
(* eq expression, a successful descriptor has metaquery with exactly the   *)
(* converted entries.                                                      *)
C13_DroppedWhenConvertible ==
    Done =>
        /\ "metaquery" \notin Accepted
              => /\ "metaquery" \notin DOMAIN outcome.kwargs
                 /\ (/\ Positions(query0, MetaEq) /= {}
                     /\ \A n \in Positions(query0, MetaEq) : MetaEqGood(query0[n]))
                       => outcome = OutcomeFor(WithoutMeta(query0))
        /\ Positions(query0, LAMBDA i : MetaEq(i) /\ ~MetaEqGood(i)) /= {}
              => ~outcome.ok
        /\ ("metaquery" \in Accepted /\ outcome.ok /\ Positions(query0, MetaEq) /= {})
              => /\ "metaquery" \in DOMAIN outcome.kwargs
                 /\ outcome.kwargs["metaquery"] = ExpectedMetaquery

\* C13's case: a metadata filter beside a project filter, for a target
\* without metaquery: the descriptor is that of the project filter alone
C13_Witness ==
    /\ Done /\ outcome.ok
    /\ "metaquery" \notin Elems(db_args)
    /\ Len(query0) = 2
    /\ query0[1] = Query("metadata.flavor", "eq", "m1.tiny")
    /\ query0[2] = Query("project_id", "eq", "P")
    /\ outcome.kwargs = ("project" :> "P")

(* C14: _get_value_as_type fails for every value when the declared type   *)
(* is none of integer, float, boolean and string; with declared type       *)
(* integer, float or boolean it fails for a value that is no literal of    *)
(* that type and gives the native value of one that is; with declared type *)
(* string it gives the value as it is.                                     *)
C14_CoercionCases ==
    pc = "coerced" =>
        /\ (Truthy(arg.type) /\ arg.type \notin {"integer", "float", "boolean", "string"})
              => ~ret.ok
        /\ arg.type = "integer"
              => IF arg.value \in DOMAIN IntLiterals
                 THEN ret.ok /\ ret.v = <<"int", IntLiterals[arg.value]>>
                 ELSE ~ret.ok
        /\ arg.type = "float"
              => IF arg.value \in DOMAIN FloatLiterals
                 THEN ret.ok /\ ret.v = <<"float", FloatLiterals[arg.value][1],
                                          FloatLiterals[arg.value][2]>>
                 ELSE ~ret.ok
        /\ arg.type = "boolean"
              => IF Lowered(arg.value) \in TrueStrings \cup FalseStrings
                 THEN ret.ok /\ ret.v = <<"bool", Lowered(arg.value) \in TrueStrings>>
                 ELSE ~ret.ok
        /\ arg.type = "string" => (ret.ok /\ ret.v = <<"str", arg.value>>)

\* C14's case: a declared type that is not supported, with a value that
\* would convert as an integer
C14_Witness ==
    /\ pc = "coerced"
    /\ arg.type = "date" /\ arg.value = "5"
    /\ ~ret.ok /\ ret.v = "not supported"

\* C14's other cases: a malformed integer, and a boolean token in capitals
C14_WitnessMalformed ==
    /\ pc = "coerced"
    /\ arg.type = "integer" /\ arg.value = "1.5"
    /\ ~ret.ok /\ ret.v = "Failed to convert"

C14_WitnessBoolean ==
    /\ pc = "coerced"
    /\ arg.type = "boolean" /\ arg.value = "YES"
    /\ ret.ok /\ ret.v = <<"bool", TRUE>>

(* C15: _validate_groupby_fields, given a list whose fields are all among *)
(* user_id, resource_id, project_id and source, returns the distinct       *)
(* fields of the list, each once (nothing for the empty list); given any   *)
(* other list it fails with the unknown-argument error carrying exactly    *)
(* the fields of the list outside those four, and returns nothing.  A      *)
(* metadata field in the list always makes it fail.                        *)
C15_GroupByValidation ==
    pc = "validated" =>
        LET given == Elems(arg)
            allowed == {"user_id", "resource_id", "project_id", "source"}
        IN  /\ IF given \subseteq allowed
               THEN /\ ret.ok
                    /\ Elems(ret.fields) = given
                    /\ Len(ret.fields) = Cardinality(given)
               ELSE /\ ~ret.ok
                    /\ ret.exc = "UnknownArgument"
                    /\ ret.what = given \ allowed
                    /\ ret.fields = <<>>
            /\ (\E f \in given : StartsWithMetadata(f)) => ~ret.ok

\* C15's case: a field given twice beside another, returned once each
C15_Witness ==
    /\ pc = "validated"
    /\ arg = <<"user_id", "resource_id", "user_id">>
    /\ ret.ok
    /\ ret.fields = <<"resource_id", "user_id">>

\* C15's other case: the error names the invalid field only
C15_WitnessInvalid ==
    /\ pc = "validated"
    /\ arg = <<"user_id", "user_id", "bogus">>
    /\ ~ret.ok /\ ret.what = {"bogus"}

(* C16: a compile that fails returns no descriptor and leaves the caller's *)
(* expression list with the expressions it had before the call.            *)
C16_Atomic ==
    (Done /\ ~outcome.ok) => (outcome.kwargs = EmptyDict /\ query = query0)

(* C17: the state that outlives a call, the default of the internal_keys   *)
(* argument of _query_to_kwargs, is at all times what it was at the start. *)
C17_NoRetainedState == default_internal_keys = <<>>

(* C18: the outcome of a compile that leaves out internal_keys, made after *)
(* other calls have left their mark on the default, is the outcome the     *)
(* same expression list, target and caller have before any other call is   *)
(* made.  (A compile that passes internal_keys reads nothing an earlier     *)
(* call wrote.)                                                            *)
C18_Deterministic ==
    (Done /\ use_default /\ ikeys0 /= <<>>)
        => outcome = _query_to_kwargs(query0, db_args, <<>>, auth).out

\* C18's case: a compile that leaves out internal_keys after other calls
\* have done so, refused for a field named like the internal key
C18_Witness ==
    /\ Done /\ use_default /\ ikeys0 /= <<>>
    /\ Len(query0) = 2
    /\ query0[1] = Query("user_id", "eq", "U")
    /\ query0[2] = Query("self", "eq", "x")
    /\ ~outcome.ok /\ outcome.exc = "UnknownArgument" /\ outcome.what = "self"

\* C18's other case: such a compile that succeeds
C18_WitnessLater ==
    /\ Done /\ use_default /\ ikeys0 /= <<>> /\ earlier = <<>>
    /\ outcome.ok /\ Restricted
    /\ outcome.kwargs = ("user" :> "U") @@ ("project" :> "P")

(* C19: when a list object is compiled again for the same caller and       *)
(* target after a compile that succeeded, the outcome is the one of the    *)
(* compile before and nothing is appended; over all its compiles the list  *)
(* grows by at most one expression.                                        *)
C19_Idempotent ==
    Done =>
        /\ earlier /= <<>> => (outcome = earlier[Len(earlier)] /\ query = query0)
        /\ Len(query) <= Len(first) + 1

\* C19's case: the second compile of a list that got the project filter of
\* a restricted caller in the first
C19_Witness ==
    /\ Done /\ Restricted /\ earlier /= <<>>
    /\ outcome.ok
    /\ first /= <<>>
    /\ query = Append(first, Query("project_id", "eq", auth))
    /\ outcome.kwargs["project"] = auth

(* C20: a request that leaves q out is filtered by its own caller alone:  *)
(* for a privileged caller the compile succeeds with a descriptor without  *)
(* project filter, for a restricted caller it succeeds with a descriptor   *)
(* whose project is the caller's (for the alarm history, whose scope is    *)
(* passed as on_behalf_of, with the empty descriptor), whatever requests   *)
(* other callers made before.                                              *)
C20_RequestIsolation ==
    (Done /\ handler /= None) =>
        /\ outcome.ok
        /\ IF Restricted /\ handler /= "AlarmController.history"
           THEN outcome.kwargs = ("project" :> auth)
           ELSE outcome.kwargs = EmptyDict

(* C21: a query without expression on field timestamp yields, when it     *)
(* compiles, a descriptor without start, end, start_timestamp,             *)
(* end_timestamp, start_timestamp_op and end_timestamp_op, and never fails *)
(* with the unknown-argument error for 'timestamp', whatever else it holds *)
(* (search_offset included) and whatever key style the target declares.    *)
C21_ResolverOnlyWithTimestamp ==
    (Done /\ Positions(query0, LAMBDA i : i.field = "timestamp") = {}) =>
        /\ outcome.ok
              => DOMAIN outcome.kwargs
                    \cap {"start", "end", "start_timestamp", "end_timestamp",
                          "start_timestamp_op", "end_timestamp_op"} = {}
        /\ ~(~outcome.ok /\ outcome.exc = "UnknownArgument"
                /\ outcome.what = "timestamp")

(* C22: the store never holds two alarms with one name and one project_id; *)
(* a creation request for a name that was in the caller's project when it  *)
(* arrived does not get past the check, and a request that failed has      *)
(* created no alarm and recorded no change.                                *)
C22_UniqueAlarmNames ==
    /\ \A a \in alarm_store, b \in alarm_store :
          (a.name = b.name /\ a.project_id = b.project_id) => a = b
    /\ \A p \in 1..MaxPosts :
          /\ (post[p].pc \in {"checked", "created", "done"}) => ~post[p].existed
          /\ (post[p].pc \in {"Alarm with that name exists", "Alarm incorrect"})
                => /\ \A a \in alarm_store : a.alarm_id /= post[p].alarm_id
                   /\ \A c \in alarm_changes : c.alarm_id /= post[p].alarm_id

\* the sample fails one of the checks of the posting loop
FailsCheck(s, _id, auth_project, def_project_id) ==
    \/ s.counter_name /= _id
    \/ s.message_id \notin {Unset, None, ""}
    \/ s.counter_type \notin TYPES
    \/ /\ auth_project \notin {None, ""}
       /\ (IF s.project_id \in {Unset, None, ""} THEN def_project_id
           ELSE s.project_id) /= auth_project

\* the samples handed to the publisher by the request under way
Published ==
    UNION {{c[k] : k \in DOMAIN c} :
              c \in {ret.publisher[n] : n \in DOMAIN ret.publisher}}

(* C23: a restricted caller with project P gets no sample published whose  *)
(* project_id differs from P; when a sample of the body fails a check the  *)
(* request fails and the publisher is not invoked at all; when none does   *)
(* the publisher is invoked once with one sample per sample of the body.   *)
C23_PostAllOrNothing ==
    (pc = "posted") =>
        LET bad == {k \in DOMAIN arg.body :
                       FailsCheck(arg.body[k], arg._id, arg.auth_project,
                                  arg.def_project_id)}
        IN /\ (arg.auth_project /= None)
                 => \A x \in Published : x.project_id = arg.auth_project
           /\ (bad /= {}) => (~ret.ok /\ ret.exc = "InvalidInput"
                                /\ ret.publisher = <<>>)
           /\ (bad = {}) => /\ ret.ok
                            /\ Len(ret.publisher) = 1
                            /\ Len(ret.publisher[1]) = Len(arg.body)

\* a restricted caller's body whose first sample passes the checks and whose
\* second names another project: the request has failed, nothing published
C23_Witness ==
    /\ pc = "posted"
    /\ arg.auth_project = "P"
    /\ Len(arg.body) = 2
    /\ ~FailsCheck(arg.body[1], arg._id, arg.auth_project, arg.def_project_id)
    /\ arg.body[2].project_id = "Q"
    /\ arg.body[2].counter_name = arg._id
    /\ arg.body[2].message_id = Unset
    /\ arg.body[2].counter_type = "gauge"
    /\ ~ret.ok
    /\ ret.what = "project_id"
    /\ ret.publisher = <<>>

\* a restricted caller's body of two samples that is published whole
C23_WitnessPublished ==
    /\ pc = "posted"
    /\ arg.auth_project = "P"
    /\ Len(arg.body) = 2
    /\ ret.ok
    /\ Len(ret.publisher) = 1
    /\ Len(ret.publisher[1]) = 2

====
